---- MODULE Spec2Model ----
(***************************************************************************)
(* Observation / reward hook module of the coverage-gridworld experiment   *)
(* (custom.py, in its two variants) as a state machine.                    *)
(*                                                                         *)
(* Rewards are Python floats built from the terms 1.0, 0.01, 0.05, 0.1,    *)
(* 5.0; they are modelled exactly, in hundredths (1.0 is 100, -0.01 is     *)
(* -1).  IEEE rounding of the sums is not modelled.                        *)
(* None is the empty sequence << >>, a present value v is << v >>.         *)
(***************************************************************************)
EXTENDS Integers, Sequences, FiniteSets, TLC

VARIABLES
    variant,              \* which custom.py the process imported: "Code" or "root"
    numpy_major,          \* the NumPy build of the process: 1 (casts wrap) or 2 (casts raise)
    CURRENT_OBS_MODE,     \* custom.CURRENT_OBS_MODE
    CURRENT_REWARD_MODE,  \* custom.CURRENT_REWARD_MODE
    LAST_AGENT_POS,       \* custom.LAST_AGENT_POS (Code variant only)
    LAST_INFO,            \* custom.LAST_INFO (Code variant only)
    call,                 \* the most recent call: its function, caller and arguments
    ret,                  \* what that call returned (or raised)
    hist,                 \* bookkeeping about earlier calls, read by the properties only
    plot                  \* the run of plot_results.py: log files, loop position, lists

vars == << variant, numpy_major, CURRENT_OBS_MODE, CURRENT_REWARD_MODE,
           LAST_AGENT_POS, LAST_INFO, call, ret, hist, plot >>

-----------------------------------------------------------------------------
(* Bounds of the explored inputs *)

MaxSeed == 1      \* grids GridOf(0) .. GridOf(MaxSeed)
MaxEnemies == 3   \* longest info["enemies"] list
MaxOver == 1      \* steps_remaining / cells_remaining up to 255 + MaxOver
PosMargin == 45   \* agent_pos from -PosMargin to 99 + PosMargin
MaxEpisodes == 1  \* most episodes logged in one monitor.csv

-----------------------------------------------------------------------------
(* Program constants *)

grid_size == 10
patch_radius == 2

None == << >>
Some(v) == << v >>

Max(a, b) == IF a >= b THEN a ELSE b
Min(a, b) == IF a <= b THEN a ELSE b
Abs(a) == IF a >= 0 THEN a ELSE 0 - a

(* A 10x10x3 uint8 grid as produced by the environment; cells of one 5x5    *)
(* window are pairwise different and none is 0, so that a copied cell can   *)
(* be told from another cell and from zero padding.                         *)
GridOf(s) ==
    [r \in 0 .. grid_size - 1 |-> [c \in 0 .. grid_size - 1 |-> [k \in 0 .. 2 |->
        1 + ((97 * s + 30 * r + 3 * c + k) % 255)]]]

GridSeeds == 0 .. MaxSeed

-----------------------------------------------------------------------------
(* NumPy primitives used by custom.py *)

(* Python's a:b slice of an axis of length n: its first index and length.  *)
SliceNorm(i, n) == IF i < 0 THEN Max(i + n, 0) ELSE Min(i, n)
SliceStart(lo, hi, n) == SliceNorm(lo, n)
SliceLen(lo, hi, n) == Max(0, SliceNorm(hi, n) - SliceNorm(lo, n))

(* np.array([x], dtype=np.uint8) for a Python int x: in range it is x; out *)
(* of range NumPy 1.x wraps modulo 256 and NumPy 2.x raises OverflowError. *)
Uint8Cast(x, np) ==
    IF x >= 0 /\ x <= 255 THEN [ok |-> TRUE, val |-> x]
    ELSE IF np = 1 THEN [ok |-> TRUE, val |-> x % 256]
    ELSE [ok |-> FALSE, val |-> 0]

(* Return values: kind "vec" carries the vector, "float" the reward in     *)
(* hundredths, "space" the declared shape, an exception kind carries << >>. *)
Vec(v) == [kind |-> "vec", val |-> v]
Raise(e) == [kind |-> e, val |-> << >>]
Float(r) == [kind |-> "float", val |-> << r >>]
Space(n) == [kind |-> "space", val |-> << n >>]
NoRet == [kind |-> "none", val |-> << >>]

-----------------------------------------------------------------------------
(* Observation encoders (identical in both variants of custom.py) *)

global_observation_space == Space(300)
local_observation_space == Space(77)

(* Mutant: flatten in column-major (Fortran) order *)
Flatten_column_major(a, nr, nc, nk) ==
    [n \in 1 .. nr * nc * nk |->
        a[(n - 1) % nr][((n - 1) \div nr) % nc][(n - 1) \div (nr * nc)]]

(* grid.flatten(): row-major, channel last *)
Flatten(a, nr, nc, nk) ==
    [n \in 1 .. nr * nc * nk |->
        a[(n - 1) \div (nc * nk)][((n - 1) % (nc * nk)) \div nk][(n - 1) % nk]]

global_observation(grid) == Vec(Flatten(grid, grid_size, grid_size, 3))

(* Mutant: the window is not clipped at the top and left edges *)
PatchGeom_unclipped(info) ==
    LET agent_row == info.agent_pos \div grid_size
        agent_col == info.agent_pos % grid_size
        row_min == agent_row - patch_radius
        row_max == Min(grid_size, agent_row + patch_radius + 1)
        col_min == agent_col - patch_radius
        col_max == Min(grid_size, agent_col + patch_radius + 1)
    IN  [row_min |-> row_min, row_max |-> row_max,
         col_min |-> col_min, col_max |-> col_max,
         r0 |-> SliceStart(row_min, row_max, grid_size),
         c0 |-> SliceStart(col_min, col_max, grid_size),
         H |-> SliceLen(row_min, row_max, grid_size),
         W |-> SliceLen(col_min, col_max, grid_size),
         h |-> row_max - row_min,
         w |-> col_max - col_min]

(* The rows and columns local_observation slices out of the grid *)
PatchGeom(info) ==
    LET agent_pos == info.agent_pos
        agent_row == agent_pos \div grid_size
        agent_col == agent_pos % grid_size
        row_min == Max(0, agent_row - patch_radius)
        row_max == Min(grid_size, agent_row + patch_radius + 1)
        col_min == Max(0, agent_col - patch_radius)
        col_max == Min(grid_size, agent_col + patch_radius + 1)
    IN  [row_min |-> row_min, row_max |-> row_max,
         col_min |-> col_min, col_max |-> col_max,
         r0 |-> SliceStart(row_min, row_max, grid_size),
         c0 |-> SliceStart(col_min, col_max, grid_size),
         H |-> SliceLen(row_min, row_max, grid_size),
         W |-> SliceLen(col_min, col_max, grid_size),
         h |-> row_max - row_min,
         w |-> col_max - col_min]

(* padded_patch[0:h, 0:w, :] = local_patch broadcasts the (H, W, 3) patch  *)
(* into the (TH, TW, 3) target; it raises ValueError unless every patch    *)
(* axis has the target's length or length 1.                               *)
PaddedPatch(grid, g) ==
    LET TH == SliceLen(0, g.h, 5)
        TW == SliceLen(0, g.w, 5)
        fits == (g.H = TH \/ g.H = 1) /\ (g.W = TW \/ g.W = 1)
        cell(i, j) == grid[g.r0 + (IF g.H = 1 THEN 0 ELSE i)]
                          [g.c0 + (IF g.W = 1 THEN 0 ELSE j)]
    IN  [ok |-> fits,
         a |-> [i \in 0 .. 4 |-> [j \in 0 .. 4 |->
                  IF fits /\ i < TH /\ j < TW THEN cell(i, j)
                  ELSE [k \in 0 .. 2 |-> 0]]]]

local_observation(grid, info, np) ==
    LET padded == PaddedPatch(grid, PatchGeom(info))
        steps_remaining == Uint8Cast(info.steps_remaining, np)
        cells_remaining == Uint8Cast(info.cells_remaining, np)
    IN  IF ~padded.ok THEN Raise("ValueError")
        ELSE IF ~steps_remaining.ok \/ ~cells_remaining.ok THEN Raise("OverflowError")
        ELSE Vec(Flatten(padded.a, 5, 5, 3)
                 \o << steps_remaining.val >> \o << cells_remaining.val >>)

-----------------------------------------------------------------------------
(* Reward policies of Code/.../custom.py, in hundredths *)

(* Mutant: the game-over term is an elif branch of the coverage term *)
reward_basic_exclusive(info) ==
    IF info.new_cell_covered THEN 100
    ELSE IF info.game_over THEN 0 - 100 ELSE 0

reward_basic(info) ==
    LET rew0 == 0
        rew1 == IF info.new_cell_covered THEN rew0 + 100 ELSE rew0
        rew2 == IF info.game_over THEN rew1 - 100 ELSE rew1
    IN  rew2

(* Mutant: the position slot is never updated *)
reward_time_pressure_no_update(info, last_agent_pos) ==
    LET rew1 == IF info.new_cell_covered THEN 100 ELSE 0
        rew2 == rew1 - 1
        rew3 == IF info.game_over THEN rew2 - 500 ELSE rew2
        rew4 == IF last_agent_pos # None
                THEN (IF info.agent_pos = last_agent_pos[1] THEN rew3 - 5 ELSE rew3)
                ELSE rew3
    IN  [rew |-> rew4, LAST_AGENT_POS |-> last_agent_pos]

(* Returns the reward and the value it leaves in LAST_AGENT_POS *)
reward_time_pressure(info, last_agent_pos) ==
    LET rew0 == 0
        rew1 == IF info.new_cell_covered THEN rew0 + 100 ELSE rew0
        rew2 == rew1 - 1
        rew3 == IF info.game_over THEN rew2 - 500 ELSE rew2
        current_pos == info.agent_pos
        rew4 == IF last_agent_pos # None
                THEN (IF current_pos = last_agent_pos[1] THEN rew3 - 5 ELSE rew3)
                ELSE rew3
    IN  [rew |-> rew4, LAST_AGENT_POS |-> Some(current_pos)]

(* The for loop over info["enemies"], from enemy n on *)
RECURSIVE ProximityLoop(_, _, _, _, _)
ProximityLoop(enemies, n, agent_x, agent_y, rew) ==
    IF n > Len(enemies) THEN rew
    ELSE LET ex == enemies[n].x
             ey == enemies[n].y
             dist == Abs(agent_x - ex) + Abs(agent_y - ey)
         IN  ProximityLoop(enemies, n + 1, agent_x, agent_y,
                           IF dist < 3 THEN rew - 10 ELSE rew)

(* Mutant: the proximity penalty is charged once, however many enemies are close *)
reward_proximity_capped(info) ==
    LET rew1 == IF info.new_cell_covered THEN 100 ELSE 0
        rew2 == rew1 - 1
        near == ProximityLoop(info.enemies, 1, info.agent_pos % 10,
                              info.agent_pos \div 10, 0)
        rew3 == IF near < 0 THEN rew2 - 10 ELSE rew2
    IN  IF info.game_over THEN rew3 - 500 ELSE rew3

reward_proximity(info) ==
    LET rew0 == 0
        rew1 == IF info.new_cell_covered THEN rew0 + 100 ELSE rew0
        rew2 == rew1 - 1
        agent_pos == info.agent_pos
        agent_x == agent_pos % 10
        agent_y == agent_pos \div 10
        rew3 == ProximityLoop(info.enemies, 1, agent_x, agent_y, rew2)
        rew4 == IF info.game_over THEN rew3 - 500 ELSE rew3
    IN  rew4

(* Reward policies of coverage-gridworld/.../custom.py (the root variant) *)

reward_basic_root(info) ==
    LET rew1 == IF info.new_cell_covered THEN 100 ELSE 0
    IN  IF info.game_over THEN rew1 - 100 ELSE rew1

reward_time_pressure_root(info) ==
    LET rew1 == IF info.new_cell_covered THEN 100 ELSE 0
        rew2 == rew1 - 1
    IN  IF info.game_over THEN rew2 - 500 ELSE rew2

reward_proximity_root(info) ==
    LET rew1 == IF info.new_cell_covered THEN 100 ELSE 0
        rew2 == rew1 - 1
    IN  IF info.game_over THEN rew2 - 500 ELSE rew2

-----------------------------------------------------------------------------
(* The hooks the environment calls *)

observation_space(obs_mode) ==
    IF obs_mode = "local" THEN local_observation_space
    ELSE global_observation_space

(* Mutant: local mode without the cached info (the root variant's hook) *)
observation_no_cache(grid, obs_mode, last_info, np) ==
    Vec(Flatten(grid, grid_size, grid_size, 3))

observation(grid, obs_mode, last_info, np) ==
    IF obs_mode = "local"
    THEN IF last_info # None
         THEN local_observation(grid, last_info[1], np)
         ELSE Vec(Flatten(grid, grid_size, grid_size, 3))
    ELSE Vec(Flatten(grid, grid_size, grid_size, 3))

(* Mutant: no "global LAST_INFO" statement, so the assignment is local and *)
(* the module's slot keeps None                                            *)
reward_local_assignment(info, reward_mode, last_agent_pos) ==
    IF reward_mode = "basic"
    THEN [rew |-> reward_basic(info), LAST_INFO |-> None,
          LAST_AGENT_POS |-> last_agent_pos]
    ELSE IF reward_mode = "time_pressure"
    THEN LET r == reward_time_pressure(info, last_agent_pos)
         IN  [rew |-> r.rew, LAST_INFO |-> None,
              LAST_AGENT_POS |-> r.LAST_AGENT_POS]
    ELSE [rew |-> reward_proximity(info), LAST_INFO |-> None,
          LAST_AGENT_POS |-> last_agent_pos]

(* Mutant: the position is tracked by the dispatcher, under every mode *)
reward_tracks_always(info, reward_mode, last_agent_pos) ==
    IF reward_mode = "basic"
    THEN [rew |-> reward_basic(info), LAST_INFO |-> Some(info),
          LAST_AGENT_POS |-> Some(info.agent_pos)]
    ELSE IF reward_mode = "time_pressure"
    THEN LET r == reward_time_pressure(info, last_agent_pos)
         IN  [rew |-> r.rew, LAST_INFO |-> Some(info),
              LAST_AGENT_POS |-> r.LAST_AGENT_POS]
    ELSE [rew |-> reward_proximity(info), LAST_INFO |-> Some(info),
          LAST_AGENT_POS |-> Some(info.agent_pos)]

(* Mutant: the dispatch sends proximity to the time_pressure policy *)
reward_misrouted(info, reward_mode, last_agent_pos) ==
    IF reward_mode = "basic"
    THEN [rew |-> reward_basic(info), LAST_INFO |-> Some(info),
          LAST_AGENT_POS |-> last_agent_pos]
    ELSE LET r == reward_time_pressure(info, last_agent_pos)
         IN  [rew |-> r.rew, LAST_INFO |-> Some(info),
              LAST_AGENT_POS |-> r.LAST_AGENT_POS]

(* Returns the reward and the values left in LAST_INFO and LAST_AGENT_POS *)
reward(info, reward_mode, last_agent_pos) ==
    LET last_info == Some(info)
    IN  IF reward_mode = "basic"
        THEN [rew |-> reward_basic(info), LAST_INFO |-> last_info,
              LAST_AGENT_POS |-> last_agent_pos]
        ELSE IF reward_mode = "time_pressure"
        THEN LET r == reward_time_pressure(info, last_agent_pos)
             IN  [rew |-> r.rew, LAST_INFO |-> last_info,
                  LAST_AGENT_POS |-> r.LAST_AGENT_POS]
        ELSE [rew |-> reward_proximity(info), LAST_INFO |-> last_info,
              LAST_AGENT_POS |-> last_agent_pos]

observation_space_root(obs_mode) ==
    IF obs_mode = "local" THEN local_observation_space
    ELSE global_observation_space

observation_root(grid, obs_mode) ==
    IF obs_mode = "local"
    THEN Vec(Flatten(grid, grid_size, grid_size, 3))
    ELSE Vec(Flatten(grid, grid_size, grid_size, 3))

reward_root(info, reward_mode) ==
    IF reward_mode = "basic" THEN reward_basic_root(info)
    ELSE IF reward_mode = "time_pressure" THEN reward_time_pressure_root(info)
    ELSE reward_proximity_root(info)

-----------------------------------------------------------------------------
(* Inputs *)

Info(p, s, c, n, g, e) ==
    [agent_pos |-> p, steps_remaining |-> s, cells_remaining |-> c,
     new_cell_covered |-> n, game_over |-> g, enemies |-> e]

Enemy(ex, ey) == [x |-> ex, y |-> ey]

(* Enemy cells at Manhattan distance 0, 1, 2, 3 and 5 from cell 55 (x 5, y 5) *)
EnemySpots == {Enemy(5, 5), Enemy(5, 6), Enemy(6, 6), Enemy(5, 8), Enemy(9, 6)}

RECURSIVE SeqsUpTo(_, _)
SeqsUpTo(S, n) ==
    IF n = 0 THEN {<< >>}
    ELSE LET shorter == SeqsUpTo(S, n - 1)
         IN  shorter \cup {Append(q, x) : q \in {t \in shorter : Len(t) = n - 1}, x \in S}

(* Values of steps_remaining and cells_remaining, in and out of uint8 *)
CounterValues == {0, 77, 255, 300} \cup (256 .. 255 + MaxOver)

(* Infos of the calls to the encoders alone *)
LocalInfos ==
    {Info(p, s, c, FALSE, FALSE, << >>) :
        p \in (0 - PosMargin) .. (99 + PosMargin),
        s \in {77, 255 + MaxOver}, c \in {0}}
    \cup {Info(p, s, c, FALSE, FALSE, << >>) :
        p \in {0, 55, 99}, s \in CounterValues, c \in CounterValues}

(* Infos of the calls to the reward policies alone *)
RewardInfos ==
    {Info(p, 3, 7, n, g, e) :
        p \in {0, 54, 55}, n \in BOOLEAN, g \in BOOLEAN,
        e \in SeqsUpTo(EnemySpots, MaxEnemies)}

(* Infos an environment passes to the reward hook *)
HookInfos ==
    {Info(p, s, 7, n, g, e) :
        p \in {0, 55}, s \in {3, 255 + MaxOver}, n \in BOOLEAN, g \in BOOLEAN,
        e \in {<< >>, << Enemy(5, 6) >>}}

(* Infos of two environments that share the process *)
TwoEnvInfos ==
    {Info(p, s, 7, FALSE, FALSE, << >>) : p \in {0, 55}, s \in {3, 4}}

ObsModes == {"global", "local"}
RewardModes == {"basic", "time_pressure", "proximity"}

-----------------------------------------------------------------------------
(* State machine *)

NoHist(envs) ==
    [declared |-> None,       \* shape declared by observation_space() since the
                              \* observation mode last changed
     last_info |-> None,      \* argument of the most recent reward() call
     all_tp |-> TRUE,         \* every reward() call so far ran under time_pressure
     owner |-> "none",        \* environment that made the most recent reward() call
     env_info |-> [e \in envs |-> None],  \* each environment's latest info
     repeat |-> FALSE]        \* the latest hook call repeats the call before it:
                              \* same hook, same caller, same argument

(* plot_results.py is not running *)
NoPlot == [pc |-> "idle", logs |-> << >>, i |-> 0, all_data |-> << >>,
           all_labels |-> << >>, warnings |-> << >>, out |-> "none"]

(* The state once custom.py is imported *)
InitOf(variants, envs) ==
    /\ variant \in variants
    /\ numpy_major \in {1, 2}
    /\ CURRENT_OBS_MODE = "global"
    /\ CURRENT_REWARD_MODE = "basic"
    /\ LAST_AGENT_POS = None
    /\ LAST_INFO = None
    /\ call = [fn |-> "import", env |-> "none", info |-> None, grid |-> None]
    /\ ret = NoRet
    /\ hist = NoHist(envs)
    /\ plot = NoPlot

(* A driver script assigns the two mode flags *)
SetModes(o, r) ==
    /\ CURRENT_OBS_MODE' = o
    /\ CURRENT_REWARD_MODE' = r
    /\ call' = [fn |-> "configure", env |-> "none", info |-> None, grid |-> None]
    /\ ret' = NoRet
    /\ hist' = [hist EXCEPT !.declared = IF o = CURRENT_OBS_MODE THEN @ ELSE None,
                             !.repeat = FALSE]
    /\ UNCHANGED << plot, variant, numpy_major, LAST_AGENT_POS, LAST_INFO >>

(* Environment e is constructed and asks for its observation space *)
ObservationSpace(e) ==
    /\ ret' = IF variant = "Code" THEN observation_space(CURRENT_OBS_MODE)
              ELSE observation_space_root(CURRENT_OBS_MODE)
    /\ call' = [fn |-> "observation_space", env |-> e, info |-> None, grid |-> None]
    /\ hist' = [hist EXCEPT !.declared = ret'.val, !.repeat = FALSE]
    /\ UNCHANGED << plot, variant, numpy_major, CURRENT_OBS_MODE, CURRENT_REWARD_MODE,
                    LAST_AGENT_POS, LAST_INFO >>

(* Environment e asks for the observation of its grid *)
Observation(e, seed) ==
    /\ ret' = IF variant = "Code"
              THEN observation(GridOf(seed), CURRENT_OBS_MODE, LAST_INFO, numpy_major)
              ELSE observation_root(GridOf(seed), CURRENT_OBS_MODE)
    /\ call' = [fn |-> "observation", env |-> e, info |-> None, grid |-> Some(seed)]
    /\ hist' = [hist EXCEPT !.repeat = (call' = call)]
    /\ UNCHANGED << plot, variant, numpy_major, CURRENT_OBS_MODE, CURRENT_REWARD_MODE,
                    LAST_AGENT_POS, LAST_INFO >>

(* Environment e asks for the reward of a step *)
Reward(e, info) ==
    /\ LET out == IF variant = "Code"
                  THEN reward(info, CURRENT_REWARD_MODE, LAST_AGENT_POS)
                  ELSE [rew |-> reward_root(info, CURRENT_REWARD_MODE),
                        LAST_INFO |-> LAST_INFO, LAST_AGENT_POS |-> LAST_AGENT_POS]
       IN  /\ ret' = Float(out.rew)
           /\ LAST_INFO' = out.LAST_INFO
           /\ LAST_AGENT_POS' = out.LAST_AGENT_POS
    /\ call' = [fn |-> "reward", env |-> e, info |-> Some(info), grid |-> None]
    /\ hist' = [hist EXCEPT
                  !.last_info = Some(info),
                  !.all_tp = @ /\ CURRENT_REWARD_MODE = "time_pressure",
                  !.owner = e,
                  !.env_info[e] = Some(info),
                  !.repeat = (call' = call)]
    /\ UNCHANGED << plot, variant, numpy_major, CURRENT_OBS_MODE, CURRENT_REWARD_MODE >>

(* Direct calls of the encoders and policies: the process starts with one  *)
(* call and its arguments chosen (ret is NoRet until it is made).          *)
PendingCall(f, infos, seeds) ==
    {[fn |-> f, env |-> "none", info |-> i, grid |-> g] : i \in infos, g \in seeds}

PureCalls ==
    PendingCall("local_observation", {Some(i) : i \in LocalInfos},
                {Some(g) : g \in GridSeeds})
    \cup PendingCall("global_observation", {None}, {Some(g) : g \in GridSeeds})
    \cup PendingCall("observation", {None}, {Some(g) : g \in GridSeeds})
    \cup PendingCall("reward_basic", {Some(i) : i \in RewardInfos}, {None})
    \cup PendingCall("reward_proximity", {Some(i) : i \in RewardInfos}, {None})

CallLocalObservation ==
    /\ call.fn = "local_observation" /\ ret = NoRet
    /\ ret' = local_observation(GridOf(call.grid[1]), call.info[1], numpy_major)
    /\ UNCHANGED << plot, variant, numpy_major, CURRENT_OBS_MODE, CURRENT_REWARD_MODE,
                    LAST_AGENT_POS, LAST_INFO, call, hist >>

CallGlobalObservation ==
    /\ call.fn = "global_observation" /\ ret = NoRet
    /\ ret' = global_observation(GridOf(call.grid[1]))
    /\ UNCHANGED << plot, variant, numpy_major, CURRENT_OBS_MODE, CURRENT_REWARD_MODE,
                    LAST_AGENT_POS, LAST_INFO, call, hist >>

(* The observation hook called in the default (global) mode, with the     *)
(* info cache empty or filled by an earlier reward() call                 *)
CallObservation ==
    /\ call.fn = "observation" /\ ret = NoRet
    /\ ret' = observation(GridOf(call.grid[1]), CURRENT_OBS_MODE, LAST_INFO,
                          numpy_major)
    /\ UNCHANGED << plot, variant, numpy_major, CURRENT_OBS_MODE, CURRENT_REWARD_MODE,
                    LAST_AGENT_POS, LAST_INFO, call, hist >>

CallRewardBasic ==
    /\ call.fn = "reward_basic" /\ ret = NoRet
    /\ ret' = Float(reward_basic(call.info[1]))
    /\ UNCHANGED << plot, variant, numpy_major, CURRENT_OBS_MODE, CURRENT_REWARD_MODE,
                    LAST_AGENT_POS, LAST_INFO, call, hist >>

CallRewardProximity ==
    /\ call.fn = "reward_proximity" /\ ret = NoRet
    /\ ret' = Float(reward_proximity(call.info[1]))
    /\ UNCHANGED << plot, variant, numpy_major, CURRENT_OBS_MODE, CURRENT_REWARD_MODE,
                    LAST_AGENT_POS, LAST_INFO, call, hist >>

(* One environment driving the hooks, either variant of custom.py *)
Init == InitOf({"Code", "root"}, {"A"})

Next ==
    \/ \E o \in ObsModes, r \in RewardModes : SetModes(o, r)
    \/ ObservationSpace("A")
    \/ \E seed \in GridSeeds : Observation("A", seed)
    \/ \E info \in HookInfos : Reward("A", info)

Spec == Init /\ [][Next]_vars

(* Two environments of one process interleaving their hook calls *)
InitTwoEnv == InitOf({"Code"}, {"A", "B"})

NextTwoEnv ==
    \/ \E o \in ObsModes, r \in RewardModes : SetModes(o, r)
    \/ \E e \in {"A", "B"} : ObservationSpace(e)
    \/ \E e \in {"A", "B"} : Observation(e, 0)
    \/ \E e \in {"A", "B"}, info \in TwoEnvInfos : Reward(e, info)

SpecTwoEnv == InitTwoEnv /\ [][NextTwoEnv]_vars

-----------------------------------------------------------------------------
(* plot_results.py (Code/ variant) *)

combos == << << "global", "basic" >>, << "global", "time_pressure" >>,
             << "global", "proximity" >>, << "local", "basic" >>,
             << "local", "time_pressure" >>, << "local", "proximity" >> >>

(* ./logs/{obs_mode}_{rew_mode}/monitor.csv: absent, or a Monitor log with *)
(* its comment line, its header line and one row per finished episode      *)
LogFiles ==
    {[exists |-> FALSE, episodes |-> 0]}
    \cup {[exists |-> TRUE, episodes |-> n] : n \in 0 .. MaxEpisodes}

(* The "r" column of combo k's log: one return per episode *)
RewardsOf(k, n) == [j \in 1 .. n |-> 10 * k + j]

(* pd.read_csv(monitor_file, skiprows=1) and df["r"].values *)
read_csv(file, k) ==
    IF file.exists THEN [kind |-> "rewards", rewards |-> RewardsOf(k, file.episodes)]
    ELSE [kind |-> "FileNotFoundError", rewards |-> << >>]

(* Mutant: no os.path.exists test before reading *)
load_rewards_unchecked(file, k) ==
    [kind |-> read_csv(file, k).kind, rewards |-> read_csv(file, k).rewards,
     warning |-> FALSE]

(* Returns None (with a warning printed) or the rewards *)
load_rewards(file, k) ==
    IF ~file.exists
    THEN [kind |-> "None", rewards |-> << >>, warning |-> TRUE]
    ELSE [kind |-> read_csv(file, k).kind, rewards |-> read_csv(file, k).rewards,
          warning |-> FALSE]

(* The script starts, with the log directories in some condition *)
InitPlot ==
    /\ variant = "none"
    /\ numpy_major = 1
    /\ CURRENT_OBS_MODE = "global"
    /\ CURRENT_REWARD_MODE = "basic"
    /\ LAST_AGENT_POS = None
    /\ LAST_INFO = None
    /\ call = [fn |-> "import", env |-> "none", info |-> None, grid |-> None]
    /\ ret = NoRet
    /\ hist = NoHist({"A"})
    /\ \E logs \in [1 .. Len(combos) -> LogFiles] :
           plot = [pc |-> "collect", logs |-> logs, i |-> 1, all_data |-> << >>,
                   all_labels |-> << >>, warnings |-> << >>, out |-> "none"]

(* One iteration of the collection loop, for combos[plot.i] *)
CollectCombo ==
    /\ plot.pc = "collect"
    /\ plot.i <= Len(combos)
    /\ LET rewards == load_rewards(plot.logs[plot.i], plot.i)
           warned == IF rewards.warning THEN Append(plot.warnings, plot.i)
                     ELSE plot.warnings
       IN  IF rewards.kind \notin {"None", "rewards"}
           THEN plot' = [plot EXCEPT !.pc = "aborted", !.out = rewards.kind]
           ELSE IF rewards.kind # "None" /\ Len(rewards.rewards) > 0
           THEN plot' = [plot EXCEPT !.all_data = Append(@, rewards.rewards),
                                     !.all_labels = Append(@, combos[plot.i]),
                                     !.warnings = warned,
                                     !.i = @ + 1]
           ELSE plot' = [plot EXCEPT !.warnings = warned, !.i = @ + 1]
    /\ UNCHANGED << variant, numpy_major, CURRENT_OBS_MODE, CURRENT_REWARD_MODE,
                    LAST_AGENT_POS, LAST_INFO, call, ret, hist >>

(* After the loop: the four plots *)
CreatePlots ==
    /\ plot.pc = "collect"
    /\ plot.i > Len(combos)
    /\ Len(plot.all_data) > 0
    /\ plot' = [plot EXCEPT !.pc = "done", !.out = "plotted"]
    /\ UNCHANGED << variant, numpy_major, CURRENT_OBS_MODE, CURRENT_REWARD_MODE,
                    LAST_AGENT_POS, LAST_INFO, call, ret, hist >>

(* After the loop: print("No data found to plot.") *)
NoDataFound ==
    /\ plot.pc = "collect"
    /\ plot.i > Len(combos)
    /\ ~(Len(plot.all_data) > 0)
    /\ plot' = [plot EXCEPT !.pc = "done", !.out = "no_data"]
    /\ UNCHANGED << variant, numpy_major, CURRENT_OBS_MODE, CURRENT_REWARD_MODE,
                    LAST_AGENT_POS, LAST_INFO, call, ret, hist >>

NextPlot ==
    \/ CollectCombo
    \/ CreatePlots
    \/ NoDataFound

SpecPlot == InitPlot /\ [][NextPlot]_vars

(* The encoders and policies called on their own *)
InitPure ==
    /\ variant = "Code"
    /\ numpy_major \in {1, 2}
    /\ CURRENT_OBS_MODE = "global"
    /\ CURRENT_REWARD_MODE = "basic"
    /\ LAST_AGENT_POS = None
    /\ call \in PureCalls
    /\ LAST_INFO \in (IF call.fn = "observation"
                     THEN {None, Some(Info(55, 3, 7, FALSE, FALSE, << >>))}
                     ELSE {None})
    /\ ret = NoRet
    /\ hist = [NoHist({"A"}) EXCEPT !.last_info = LAST_INFO,
                                    !.owner = IF LAST_INFO = None THEN "none" ELSE "A",
                                    !.all_tp = (LAST_INFO = None),
                                    !.env_info = [e \in {"A"} |-> LAST_INFO]]
    /\ plot = NoPlot

NextPure ==
    \/ CallLocalObservation
    \/ CallGlobalObservation
    \/ CallObservation
    \/ CallRewardBasic
    \/ CallRewardProximity

SpecPure == InitPure /\ [][NextPure]_vars

-----------------------------------------------------------------------------
(* Properties of the encoders and policies called on their own (SpecPure)  *)

Returned(f) == call.fn = f /\ ret # NoRet
InGrid(p) == p >= 0 /\ p <= 99

(* C4: for every agent position in [0,99] and all non-negative            *)
(* steps_remaining and cells_remaining, values above 255 included,        *)
(* local_observation returns 77 elements in [0,255] whose last two are    *)
(* min(steps_remaining, 255) and min(cells_remaining, 255).               *)
C4_ScalarsClamped ==
    (Returned("local_observation") /\ InGrid(call.info[1].agent_pos)) =>
        /\ ret.kind = "vec"
        /\ Len(ret.val) = 77
        /\ \A n \in 1 .. 77 : ret.val[n] >= 0 /\ ret.val[n] <= 255
        /\ ret.val[76] = Min(call.info[1].steps_remaining, 255)
        /\ ret.val[77] = Min(call.info[1].cells_remaining, 255)

(* The window the claim C5 describes, from the agent position alone *)
WindowOf(p) ==
    LET row == p \div 10
        col == p % 10
    IN  [row_min |-> Max(0, row - 2), row_max |-> Min(10, row + 3),
         col_min |-> Max(0, col - 2), col_max |-> Min(10, col + 3)]

(* C5: for every agent position in [0,99] the first 75 elements of the    *)
(* returned vector are the row-major, channel-last flatten of the 5x5x3   *)
(* buffer holding the clipped window in its top-left corner and 0         *)
(* elsewhere, and only grid rows and columns 0..9 are read.  No in-range  *)
(* position makes the patch copy fail; the only other outcome is the      *)
(* OverflowError of the scalar casts, when a counter exceeds 255.         *)
C5_PatchTopLeftZeroPadded ==
    (Returned("local_observation") /\ InGrid(call.info[1].agent_pos)) =>
        LET info == call.info[1]
            grid == GridOf(call.grid[1])
            win == WindowOf(info.agent_pos)
            geom == PatchGeom(info)
        IN  /\ ret.kind \in {"vec", "OverflowError"}
            /\ ret.kind = "OverflowError" =>
                   /\ numpy_major = 2
                   /\ info.steps_remaining > 255 \/ info.cells_remaining > 255
            /\ ret.kind = "vec" =>
                   \A i \in 0 .. 4, j \in 0 .. 4, k \in 0 .. 2 :
                       ret.val[15 * i + 3 * j + k + 1] =
                           IF i < win.row_max - win.row_min /\ j < win.col_max - win.col_min
                           THEN grid[win.row_min + i][win.col_min + j][k]
                           ELSE 0
            /\ {geom.r0 + i : i \in 0 .. geom.H - 1} = win.row_min .. win.row_max - 1
            /\ {geom.c0 + j : j \in 0 .. geom.W - 1} = win.col_min .. win.col_max - 1
            /\ win.row_min .. win.row_max - 1 \subseteq 0 .. 9
            /\ win.col_min .. win.col_max - 1 \subseteq 0 .. 9

(* Agent in the bottom-right corner (position 99): a 3x3 window, copied to *)
(* the top-left of the buffer, zero rows and columns below and right.      *)
C5_Witness ==
    /\ Returned("local_observation")
    /\ call.info[1].agent_pos = 99
    /\ ret.kind = "vec"
    /\ ret.val[1] = GridOf(call.grid[1])[7][7][0]
    /\ ret.val[3 * 15 + 1] = 0
    /\ ret.val[3 * 3 + 1] = 0

(* C6: reward_proximity is +1.0 if a new cell is covered, -0.01, -0.1 for  *)
(* each enemy at Manhattan distance below 3 (each counted once, no cap),   *)
(* -5.0 if game over; enemies at distance 1 and 5 with a new cell covered  *)
(* and no game over give 0.89.                                             *)
CloseEnemies(info) ==
    {n \in 1 .. Len(info.enemies) :
        Abs((info.agent_pos % 10) - info.enemies[n].x)
        + Abs((info.agent_pos \div 10) - info.enemies[n].y) < 3}

C6_ProximityCountsEachCloseEnemy ==
    Returned("reward_proximity") =>
        LET info == call.info[1]
        IN  /\ ret = Float((IF info.new_cell_covered THEN 100 ELSE 0) - 1
                           - 10 * Cardinality(CloseEnemies(info))
                           - (IF info.game_over THEN 500 ELSE 0))
            /\ (info = Info(55, 3, 7, TRUE, FALSE, << Enemy(5, 6), Enemy(9, 6) >>))
                   => ret = Float(89)

(* Three enemies at distance 1, 5 and 2: two count, the far one does not. *)
C6_Witness ==
    /\ Returned("reward_proximity")
    /\ call.info[1] = Info(55, 3, 7, TRUE, FALSE,
                           << Enemy(5, 6), Enemy(9, 6), Enemy(6, 6) >>)
    /\ ret = Float(79)

(* C8: local_observation rejects an agent_pos outside [0,99] with an      *)
(* error and never returns a vector for it.                               *)
C8_OutOfGridRejected ==
    (Returned("local_observation") /\ ~InGrid(call.info[1].agent_pos)) =>
        ret.kind # "vec"

-----------------------------------------------------------------------------
(* Properties of the hooks (Spec) *)

(* C1: under a fixed observation mode, every vector observation(grid)     *)
(* returns has the length observation_space() declared for that mode      *)
(* (300 global, 77 local), also before the first reward() call.           *)
C1_ObservationLengthAsDeclared ==
    (call.fn = "observation" /\ ret.kind = "vec" /\ hist.declared # None) =>
        /\ hist.declared[1] = (IF CURRENT_OBS_MODE = "local" THEN 77 ELSE 300)
        /\ Len(ret.val) = hist.declared[1]

(* C2: in local mode, once reward() has been called, observation(grid)    *)
(* returns local_observation(grid, i) for the argument i of the most      *)
(* recent reward() call; reward() caches its argument under every mode.   *)
C2_LocalObservationUsesLatestInfo ==
    variant = "Code" =>
        /\ (call.fn = "observation" /\ CURRENT_OBS_MODE = "local"
                /\ hist.last_info # None) =>
               ret = local_observation(GridOf(call.grid[1]), hist.last_info[1],
                                       numpy_major)
        /\ call.fn = "reward" => LAST_INFO = call.info

(* A 77-vector built from the info of a proximity-mode reward() call:     *)
(* agent at 55, so element 1 is grid cell (3,3), and steps_remaining 3.   *)
C2_Witness ==
    /\ variant = "Code" /\ call.fn = "observation" /\ CURRENT_OBS_MODE = "local"
    /\ CURRENT_REWARD_MODE = "proximity"
    /\ hist.last_info # None /\ hist.last_info[1].agent_pos = 55
    /\ ret.kind = "vec" /\ Len(ret.val) = 77
    /\ ret.val[1] = GridOf(call.grid[1])[3][3][0]
    /\ ret.val[76] = 3

(* The time-pressure terms that do not depend on earlier calls *)
TimePressureBase(info) ==
    (IF info.new_cell_covered THEN 100 ELSE 0) - 1 - (IF info.game_over THEN 500 ELSE 0)

(* C3: with every reward() call made under time_pressure (Code variant),  *)
(* the value is +1.0 if new cell, -0.01, -5.0 if game over, and -0.05     *)
(* more exactly when agent_pos equals the agent_pos of the preceding      *)
(* reward() call; the first call carries no stuck penalty.                *)
C3_TimePressureStuckPenalty ==
    [][(variant = "Code" /\ call'.fn = "reward"
            /\ CURRENT_REWARD_MODE = "time_pressure" /\ hist.all_tp) =>
        LET info == call'.info[1]
            stuck == hist.last_info # None
                     /\ hist.last_info[1].agent_pos = info.agent_pos
        IN  ret' = Float(TimePressureBase(info) - (IF stuck THEN 5 ELSE 0))]_vars

(* A stuck step: no new cell, no game over, same position as before: -0.06 *)
C3_Witness ==
    /\ variant = "Code" /\ call.fn = "reward"
    /\ CURRENT_REWARD_MODE = "time_pressure" /\ hist.all_tp
    /\ ~call.info[1].new_cell_covered /\ ~call.info[1].game_over
    /\ ret = Float(0 - 6)

(* C7: a hook called twice in a row with the same argument under the same *)
(* mode returns the same value both times.                                *)
C7_HooksIdempotent ==
    [][(call' = call /\ call.fn \in {"reward", "observation"}) => ret' = ret]_vars

(* C7 amended: so it is for observation(), and for reward() under basic   *)
(* and proximity and in the root variant; under time_pressure in the Code *)
(* variant the repeated call always carries the -0.05 stuck penalty.      *)
C7_IdempotentExceptTimePressure ==
    [][(call' = call /\ call.fn \in {"reward", "observation"}) =>
        IF call.fn = "reward" /\ variant = "Code"
           /\ CURRENT_REWARD_MODE = "time_pressure"
        THEN ret' = Float(TimePressureBase(call.info[1]) - 5)
        ELSE ret' = ret]_vars

(* The second of two identical time_pressure reward() calls *)
C7_Witness ==
    /\ hist.repeat /\ call.fn = "reward" /\ variant = "Code"
    /\ CURRENT_REWARD_MODE = "time_pressure"
    /\ ret = Float(TimePressureBase(call.info[1]) - 5)

(* C10: reward(info) under mode m returns what the policy named for m     *)
(* returns on that info from the same prior state, in both variants.      *)
C10_RewardDispatch ==
    [][call'.fn = "reward" =>
        LET info == call'.info[1]
            m == CURRENT_REWARD_MODE
        IN  ret' = Float(
                IF variant = "Code"
                THEN CASE m = "basic" -> reward_basic(info)
                       [] m = "time_pressure" ->
                              reward_time_pressure(info, LAST_AGENT_POS).rew
                       [] m = "proximity" -> reward_proximity(info)
                ELSE CASE m = "basic" -> reward_basic_root(info)
                       [] m = "time_pressure" -> reward_time_pressure_root(info)
                       [] m = "proximity" -> reward_proximity_root(info))]_vars

(* A proximity call whose value neither other policy would give: new cell *)
(* covered, one enemy next to the agent, 0.89                             *)
C10_Witness ==
    /\ variant = "Code" /\ call.fn = "reward" /\ CURRENT_REWARD_MODE = "proximity"
    /\ call.info[1].agent_pos = 55 /\ call.info[1].enemies = << Enemy(5, 6) >>
    /\ call.info[1].new_cell_covered /\ ~call.info[1].game_over
    /\ ret = Float(89)

-----------------------------------------------------------------------------
(* Properties of two environments in one process (SpecTwoEnv) *)

OtherOwner(e) == hist.owner # "none" /\ hist.owner # e

(* C9: with two environments interleaving their hook calls in local mode, *)
(* an observation asked by one is computed from the info the other's      *)
(* reward() call cached last, and a time_pressure stuck penalty is        *)
(* decided against the other's last agent position.                       *)
C9_CrossTalk ==
    /\ [](( call.fn = "observation" /\ CURRENT_OBS_MODE = "local"
            /\ OtherOwner(call.env)) =>
          ret = local_observation(GridOf(call.grid[1]),
                                  hist.env_info[hist.owner][1], numpy_major))
    /\ [][(call'.fn = "reward" /\ CURRENT_REWARD_MODE = "time_pressure"
            /\ hist.all_tp /\ OtherOwner(call'.env)) =>
          ret' = Float(TimePressureBase(call'.info[1])
                       - (IF hist.env_info[hist.owner][1].agent_pos
                              = call'.info[1].agent_pos
                          THEN 5 ELSE 0))]_vars

(* A's observation, encoded from B's info and not what A's own latest     *)
(* info would have given                                                  *)
C9_Witness ==
    /\ call.fn = "observation" /\ call.env = "A" /\ CURRENT_OBS_MODE = "local"
    /\ hist.owner = "B" /\ hist.env_info["A"] # None
    /\ ret = local_observation(GridOf(call.grid[1]), hist.env_info["B"][1],
                               numpy_major)
    /\ ret # local_observation(GridOf(call.grid[1]), hist.env_info["A"][1],
                               numpy_major)

-----------------------------------------------------------------------------
(* C11: reward_basic is the sum of +1.0 if a new cell is covered and -1.0 *)
(* if game over: (true,false) 1.0, (true,true) 0.0, (false,true) -1.0,    *)
(* (false,false) 0.0, whatever the other fields of info and whatever the  *)
(* globals hold.                                                          *)
BasicTable(n, g) ==
    CASE n /\ ~g -> 100
      [] n /\ g -> 0
      [] ~n /\ g -> 0 - 100
      [] ~n /\ ~g -> 0

C11_BasicIsSumOfTwoFlags ==
    (call.fn = "reward" /\ CURRENT_REWARD_MODE = "basic") =>
        ret = Float(BasicTable(call.info[1].new_cell_covered, call.info[1].game_over))

(* Both terms at once, 0.0, with an enemy next to the agent and the       *)
(* position slot set by an earlier time_pressure call                     *)
C11_Witness ==
    /\ variant = "Code" /\ call.fn = "reward" /\ CURRENT_REWARD_MODE = "basic"
    /\ call.info[1].new_cell_covered /\ call.info[1].game_over
    /\ call.info[1].enemies # << >>
    /\ LAST_AGENT_POS # None
    /\ ret = Float(0)

-----------------------------------------------------------------------------
(* C12: global_observation(g), and observation(g) in global mode, has 300 *)
(* elements, element 30*r + 3*c + k (counted from 0) being g[r][c][k], so *)
(* that reshaping it to (10,10,3) gives back g.                           *)
Reshape10x10x3(v) ==
    [r \in 0 .. 9 |-> [c \in 0 .. 9 |-> [k \in 0 .. 2 |-> v[30 * r + 3 * c + k + 1]]]]

C12_GlobalFlattenRoundTrip ==
    (Returned("global_observation")
        \/ (Returned("observation") /\ CURRENT_OBS_MODE = "global")) =>
        LET g == GridOf(call.grid[1])
        IN  /\ ret.kind = "vec"
            /\ Len(ret.val) = 300
            /\ \A r \in 0 .. 9, c \in 0 .. 9, k \in 0 .. 2 :
                   ret.val[30 * r + 3 * c + k + 1] = g[r][c][k]
            /\ Reshape10x10x3(ret.val) = g

(* The hook in global mode with an info cached: still the 300-element     *)
(* flatten, whose element 34 is cell (1,1,0) and whose last is (9,9,2)    *)
C12_Witness ==
    /\ Returned("observation") /\ CURRENT_OBS_MODE = "global" /\ LAST_INFO # None
    /\ Len(ret.val) = 300
    /\ ret.val[34] = GridOf(call.grid[1])[1][1][0]
    /\ ret.val[300] = GridOf(call.grid[1])[9][9][2]
    /\ ret.val[34] # GridOf(call.grid[1])[1][1][1]

-----------------------------------------------------------------------------
(* Properties of plot_results.py (SpecPlot) *)

(* The combos among the first n whose log exists with at least one episode *)
RECURSIVE Qualifying(_, _)
Qualifying(logs, n) ==
    IF n = 0 THEN << >>
    ELSE IF logs[n].exists /\ logs[n].episodes > 0
         THEN Append(Qualifying(logs, n - 1), n)
         ELSE Qualifying(logs, n - 1)

RECURSIVE Missing(_, _)
Missing(logs, n) ==
    IF n = 0 THEN << >>
    ELSE IF ~logs[n].exists THEN Append(Missing(logs, n - 1), n)
         ELSE Missing(logs, n - 1)

(* C13: whichever monitor.csv files are missing, each missing one gives a *)
(* warning and is skipped and the run does not abort; the data and label  *)
(* lists have equal length and hold exactly the combos whose log exists   *)
(* with at least one episode, in combo order; with none, the script       *)
(* reports that no data was found instead of plotting.                    *)
C13_MissingLogsSkipped ==
    plot.pc # "idle" =>
        LET seen == IF plot.pc = "collect" THEN plot.i - 1 ELSE Len(combos)
            q == Qualifying(plot.logs, seen)
        IN  /\ plot.pc \in {"collect", "done"}
            /\ Len(plot.all_data) = Len(plot.all_labels)
            /\ plot.all_labels = [j \in 1 .. Len(q) |-> combos[q[j]]]
            /\ plot.all_data = [j \in 1 .. Len(q) |->
                                   RewardsOf(q[j], plot.logs[q[j]].episodes)]
            /\ plot.warnings = Missing(plot.logs, seen)
            /\ plot.pc = "done" =>
                   plot.out = (IF Len(q) = 0 THEN "no_data" ELSE "plotted")

(* A finished run over a missing log, an empty log and logs with episodes *)
C13_Witness ==
    /\ plot.pc = "done" /\ plot.out = "plotted"
    /\ ~plot.logs[1].exists
    /\ plot.logs[2].exists /\ plot.logs[2].episodes = 0
    /\ ~plot.logs[4].exists
    /\ plot.all_labels = << << "global", "proximity" >>, << "local", "proximity" >> >>
    /\ plot.warnings = << 1, 4 >>

-----------------------------------------------------------------------------
(* C14: LAST_INFO is None exactly until the first reward() call of the    *)
(* process; no hook call, mode assignment or construction of a further    *)
(* environment clears it.  So the 300-element fallback of observation()   *)
(* in local mode occurs only before that first call, and the first        *)
(* observation of an environment that has not yet called reward() is      *)
(* encoded from the info cached last, by whichever environment ran before. *)
C14_CacheNeverCleared ==
    /\ [](LAST_INFO = None <=> hist.last_info = None)
    /\ [][LAST_INFO # None => LAST_INFO' # None]_vars
    /\ []((call.fn = "observation" /\ CURRENT_OBS_MODE = "local"
           /\ ret.kind = "vec" /\ Len(ret.val) = 300) => hist.last_info = None)
    /\ []((call.fn = "observation" /\ CURRENT_OBS_MODE = "local"
           /\ hist.env_info[call.env] = None /\ hist.last_info # None) =>
          /\ LAST_INFO = hist.last_info
          /\ ret = local_observation(GridOf(call.grid[1]), hist.last_info[1],
                                     numpy_major))

(* Environment B, built after A ran, has not called reward() yet; its     *)
(* first observation in local mode has 77 elements, with A's last         *)
(* steps_remaining as element 76                                          *)
C14_Witness ==
    /\ call.fn = "observation" /\ call.env = "B" /\ CURRENT_OBS_MODE = "local"
    /\ hist.env_info["B"] = None /\ hist.owner = "A"
    /\ hist.declared = << 77 >>
    /\ ret.kind = "vec" /\ Len(ret.val) = 77
    /\ ret.val[76] = hist.env_info["A"][1].steps_remaining
    /\ ret.val[76] = 4

-----------------------------------------------------------------------------
(* C15: LAST_AGENT_POS is written only by reward_time_pressure, with the  *)
(* agent_pos of that call: reward() under basic or proximity, the other   *)
(* hooks and the mode assignments leave it as it is.  So a time_pressure  *)
(* reward is decided against the position of the last time_pressure call, *)
(* whatever happened in between.                                          *)
C15_PositionSlotFrame ==
    /\ [][LAST_AGENT_POS' # LAST_AGENT_POS =>
            /\ variant = "Code"
            /\ call'.fn = "reward"
            /\ CURRENT_REWARD_MODE = "time_pressure"]_vars
    /\ [][(variant = "Code" /\ call'.fn = "reward"
            /\ CURRENT_REWARD_MODE = "time_pressure") =>
            /\ LAST_AGENT_POS' = Some(call'.info[1].agent_pos)
            /\ ret' = Float(TimePressureBase(call'.info[1])
                            - (IF LAST_AGENT_POS # None
                                  /\ LAST_AGENT_POS[1] = call'.info[1].agent_pos
                               THEN 5 ELSE 0))]_vars
    /\ [][(call'.fn # "reward" \/ CURRENT_REWARD_MODE # "time_pressure") =>
            LAST_AGENT_POS' = LAST_AGENT_POS]_vars

(* A proximity-mode reward() call at position 0 that left the slot at 55, *)
(* the position of an earlier time_pressure call                          *)
C15_Witness ==
    /\ variant = "Code" /\ call.fn = "reward" /\ CURRENT_REWARD_MODE = "proximity"
    /\ call.info[1].agent_pos = 0
    /\ LAST_INFO = call.info
    /\ LAST_AGENT_POS = << 55 >>

====
